---- MODULE Spec2Model ----
(***************************************************************************)
(* Studio time-slot booking: the booking service over the hosted store,    *)
(* the slot calculator, the role resolver, and the React booking context   *)
(* with its forms, as state machines.                                      *)
(*                                                                         *)
(* Time is counted in minutes; minute 0 is 00:00 of day 0.  A slot label   *)
(* "HH:MM" is modelled by the number HH*100+MM, whose zero-padded decimal  *)
(* rendering is the label, so the order of labels as strings is the order  *)
(* of these numbers.  created_at is the store's insertion sequence number. *)
(*                                                                         *)
(* The specifications of the module:                                       *)
(*   SpecService  the exported booking-service functions, called directly  *)
(*                with any argument their TypeScript types admit;          *)
(*   SpecCreate   createBooking over a table that already holds bookings;  *)
(*   SpecHeld     updateBooking and updateBookingStatus on bookings held;  *)
(*   SpecRace     two writes to one booking, answered in either order;     *)
(*   SpecSlots    the slot calculator over any small table;                *)
(*   SpecWalk     the slot walk in browsers of several time zones;         *)
(*   SpecAuth     the role resolver over the profiles table;               *)
(*   SpecSession  AuthProvider with login, registration and logout;        *)
(*   SpecBoundary every exported operation of the two services with every  *)
(*                answer of its collaborators;                             *)
(*   Spec         the application: forms, booking context, realtime feed;  *)
(*   SpecDialog   the edit dialog of the booking history;                  *)
(*   SpecContext  the booking context of one client, called directly;      *)
(*   SpecSync     SpecContext with every fetch answered with data.         *)
(***************************************************************************)
EXTENDS Integers, Sequences, FiniteSets, TLC

VARIABLES
    table,      \* the "bookings" table of the store: id -> row
    nextId,     \* next identifier / created_at sequence number of the store
    last,       \* SpecService: the last service call and its {data, error}
    profiles,   \* SpecAuth: the "profiles" table: identity -> profile row
    resolved,   \* SpecAuth: the last getUserProfile call and its result
    ctx,        \* Spec: per client, the context's `bookings` state
    isLoading,  \* Spec: per client, the context's `isLoading` state
    fetches,    \* Spec: per client, fetchAllBookings responses in flight
    events,     \* Spec: per client, a change event waits for its handler
    pc,         \* Spec: per client, the context mutation being awaited
    editing,    \* Spec: per client, BookingHistory's editingBooking
    deleting,   \* Spec: per client, BookingHistory's deletingBooking
    adminRows,  \* Spec: per client, AdminBookingTable's filteredBookings
    subscribed, \* Spec: per client, the realtime channel is registered
    userBookings, \* Spec: per client, BookingHistory's userBookings
    accounts,   \* SpecSession: the identities the auth collaborator holds
    session,    \* SpecSession: the identity of the current session, or none
    user,       \* SpecSession: AuthProvider's `user` state
    authLoading, \* SpecSession: AuthProvider's `isLoading` state
    cookie,     \* SpecSession: the cookie "secret"
    pending,    \* SpecSession: queries in flight and events not yet handled
    takenSlots, \* SpecDialog: per client, EditBookingModal's takenSlots
    slotFetches \* SpecDialog: per client, the dialog's getTakenSlots calls
                \* in flight

storeVars == <<table, nextId>>
sessionVars == <<accounts, session, user, authLoading, cookie, pending>>
authVars == <<profiles, resolved, sessionVars>>
dialogVars == <<takenSlots, slotFetches>>
appVars == <<ctx, isLoading, fetches, events, pc, editing, deleting,
             adminRows, subscribed, userBookings, dialogVars>>
vars == <<table, nextId, last, profiles, resolved, ctx, isLoading, fetches,
          events, pc, editing, deleting, adminRows, subscribed, userBookings,
          accounts, session, user, authLoading, cookie, pending,
          takenSlots, slotFetches>>

(***************************************************************************)
(* Bounds of the model.                                                    *)
(***************************************************************************)
MaxBookings == 1
MaxInFlight == 1
MaxRows == 2
MaxSlotBookings == 2
MaxHeld == 1
MaxCreates == 1

(***************************************************************************)
(* Values.                                                                 *)
(***************************************************************************)
Null == [null |-> TRUE]
NoError == "null"
HourMinutes == 60
DayMinutes == 1440

Users == {"u1", "u2"}
BookingStatus == {"pending", "approved", "rejected", "today"}
Outcomes == {"ok", "error", "throw"}

DecisionsOfTheType == BookingStatus

\* The statuses the administrator's table asks for: handleApprove and
\* handleReject.
Decisions == {"approved", "rejected"}

EmptyTable == [i \in {} |-> Null]

\* {...a, ...b}: the fields of a, overridden and extended by those of b.
Spread(a, b) ==
    [f \in (DOMAIN a) \cup (DOMAIN b) |-> IF f \in DOMAIN b THEN b[f] ELSE a[f]]

\* The result shape every service function returns.
Response(data, error) == [data |-> data, error |-> error]

\* No catch: the exception leaves the function.
FailureUncaught(outcome, failed) ==
    IF outcome = "throw" THEN [thrown |-> "exception"]
    ELSE Response(Null, failed)

\* try { ...; if (error) return {null, failed} } catch { return {null, unexpected} }
Failure(outcome, failed) ==
    Response(Null, IF outcome = "throw" THEN "An unexpected error occurred"
                   ELSE failed)

(***************************************************************************)
(* The store's "bookings" table and the booking service over it.  Each     *)
(* function is its TypeScript body with the store's answer (`outcome`) as  *)
(* a parameter: "ok", an error object in the reply, or a thrown exception. *)
(* A result is [table, nextId, resp]: the store after the call and the     *)
(* {data, error} returned.  user_name is the display name of user_id and   *)
(* is not carried.                                                         *)
(***************************************************************************)
Result(tbl, nid, resp) == [table |-> tbl, nextId |-> nid, resp |-> resp]

\* insert(): the columns the store fills in: id, created_at, and status
\* when the payload has none (the column's default).
InsertedRow(payload, nid) ==
    [id |-> nid,
     user_id |-> payload.user_id,
     start_time |-> payload.start_time,
     end_time |-> payload.end_time,
     status |-> IF "status" \in DOMAIN payload THEN payload.status
                ELSE "pending",
     reason |-> payload.reason,
     created_at |-> nid]

Put(tbl, id, row) ==
    [i \in (DOMAIN tbl) \cup {id} |-> IF i = id THEN row ELSE tbl[i]]

Remove(tbl, id) == [i \in (DOMAIN tbl) \ {id} |-> tbl[i]]

createBookingEndsAtStart(tbl, nid, booking, outcome) ==
    IF outcome # "ok"
    THEN Result(tbl, nid, Failure(outcome, "Failed to create booking"))
    ELSE LET row == InsertedRow(Spread(booking, [status |-> "pending",
                                                 end_time |-> booking.start_time]),
                                nid)
         IN  Result(Put(tbl, nid, row), nid + 1, Response(row, NoError))

createBookingRefusesTaken(tbl, nid, booking, outcome) ==
    IF \/ outcome # "ok"
       \/ \E i \in DOMAIN tbl :
            /\ tbl[i].status \in {"pending", "approved"}
            /\ tbl[i].start_time < booking.end_time
            /\ booking.start_time < tbl[i].end_time
    THEN Result(tbl, nid, Failure(outcome, "Failed to create booking"))
    ELSE LET row == InsertedRow(Spread(booking, [status |-> "pending"]), nid)
         IN  Result(Put(tbl, nid, row), nid + 1, Response(row, NoError))

createBookingCallerWins(tbl, nid, booking, outcome) ==
    IF outcome # "ok"
    THEN Result(tbl, nid, Failure(outcome, "Failed to create booking"))
    ELSE LET row == InsertedRow(Spread([status |-> "pending"], booking), nid)
         IN  Result(Put(tbl, nid, row), nid + 1, Response(row, NoError))

createBooking(tbl, nid, booking, outcome) ==
    IF outcome # "ok"
    THEN Result(tbl, nid, Failure(outcome, "Failed to create booking"))
    ELSE LET row == InsertedRow(Spread(booking, [status |-> "pending"]), nid)
         IN  Result(Put(tbl, nid, row), nid + 1, Response(row, NoError))

updateBookingResubmits(tbl, nid, id, updates, outcome) ==
    IF outcome # "ok" \/ id \notin DOMAIN tbl
    THEN Result(tbl, nid, Failure(outcome, "Failed to update booking"))
    ELSE LET row == Spread(Spread(tbl[id], updates), [status |-> "pending"])
         IN  Result(Put(tbl, id, row), nid, Response(row, NoError))

\* update(updates).eq("id", id).select().single(): no matching row is an
\* error of single().
updateBooking(tbl, nid, id, updates, outcome) ==
    IF outcome # "ok" \/ id \notin DOMAIN tbl
    THEN Result(tbl, nid, Failure(outcome, "Failed to update booking"))
    ELSE LET row == Spread(tbl[id], updates)
         IN  Result(Put(tbl, id, row), nid, Response(row, NoError))

updateBookingStatusOnlyPending(tbl, nid, id, status, outcome) ==
    IF outcome # "ok" \/ id \notin DOMAIN tbl \/ tbl[id].status # "pending"
    THEN Result(tbl, nid, Failure(outcome, "Failed to update booking status"))
    ELSE LET row == Spread(tbl[id], [status |-> status])
         IN  Result(Put(tbl, id, row), nid, Response(row, NoError))

updateBookingStatusTouches(tbl, nid, id, status, outcome) ==
    IF outcome # "ok" \/ id \notin DOMAIN tbl
    THEN Result(tbl, nid, Failure(outcome, "Failed to update booking status"))
    ELSE LET row == Spread(tbl[id], [status |-> status,
                                     created_at |-> tbl[id].created_at + 1])
         IN  Result(Put(tbl, id, row), nid, Response(row, NoError))

updateBookingStatus(tbl, nid, id, status, outcome) ==
    IF outcome # "ok" \/ id \notin DOMAIN tbl
    THEN Result(tbl, nid, Failure(outcome, "Failed to update booking status"))
    ELSE LET row == Spread(tbl[id], [status |-> status])
         IN  Result(Put(tbl, id, row), nid, Response(row, NoError))

\* delete().eq("id", id): deleting no row is not an error.
deleteBooking(tbl, nid, id, outcome) ==
    IF outcome # "ok"
    THEN Result(tbl, nid, Failure(outcome, "Failed to delete booking"))
    ELSE Result(Remove(tbl, id), nid, Response(Null, NoError))

\* order("created_at", {ascending: false}); ties by id.
Newest(rows) ==
    CHOOSE r \in rows :
        \A q \in rows : \/ q.created_at < r.created_at
                        \/ q.created_at = r.created_at /\ q.id <= r.id

RECURSIVE OrderByCreatedDesc(_)
OrderByCreatedDesc(rows) ==
    IF rows = {} THEN <<>>
    ELSE <<Newest(rows)>> \o OrderByCreatedDesc(rows \ {Newest(rows)})

Rows(tbl) == {tbl[i] : i \in DOMAIN tbl}

\* The rows but the newest: a partial collection.
fetchAllBookingsButNewest(tbl, outcome) ==
    IF outcome # "ok" THEN Failure(outcome, "Failed to fetch bookings")
    ELSE IF Rows(tbl) = {} THEN Response(<<>>, NoError)
    ELSE Response(OrderByCreatedDesc(Rows(tbl) \ {Newest(Rows(tbl))}), NoError)

fetchAllBookings(tbl, outcome) ==
    IF outcome # "ok" THEN Failure(outcome, "Failed to fetch bookings")
    ELSE Response(OrderByCreatedDesc(Rows(tbl)), NoError)

\* order("start_time", {ascending: true}); ties by id.
Earliest(rows) ==
    CHOOSE r \in rows :
        \A q \in rows : \/ q.start_time > r.start_time
                        \/ q.start_time = r.start_time /\ q.id >= r.id

RECURSIVE OrderByStartAsc(_)
OrderByStartAsc(rows) ==
    IF rows = {} THEN <<>>
    ELSE <<Earliest(rows)>> \o OrderByStartAsc(rows \ {Earliest(rows)})

fetchUserBookings(tbl, userId, outcome) ==
    IF outcome = "throw" THEN Response(Null, "An unexpected error occurred")
    ELSE IF outcome = "error" THEN Response(Null, "Failed to fetch your bookings")
    ELSE Response(OrderByCreatedDesc({r \in Rows(tbl) : r.user_id = userId}),
                  NoError)

\* .gte("start_time", date T00:00:00).lte("start_time", date T23:59:59)
fetchBookingsForDate(tbl, date, outcome) ==
    IF outcome = "throw" THEN Response(Null, "An unexpected error occurred")
    ELSE IF outcome = "error"
    THEN Response(Null, "Failed to fetch bookings for date")
    ELSE Response(OrderByStartAsc(
                      {r \in Rows(tbl) :
                          /\ r.start_time >= date * DayMinutes
                          /\ r.start_time <= date * DayMinutes + (DayMinutes - 1)}),
                  NoError)

\* The relations the store declares (Database.public.Tables).
DeclaredTables == {"profiles", "bookings", "user_roles"}

\* from(name): the rows the query ranges over.
Relation(tbl, name) == IF name = "bookings" THEN tbl ELSE EmptyTable

\* The store's reply to a query on the relation: an error when it declares
\* no relation of that name.
Reply(name, outcome) ==
    IF outcome = "ok" /\ name \notin DeclaredTables THEN "error" ELSE outcome

\* from("slots"): the rows of the store's relation of that name.
fetchBookingsByStatus(slots, status, outcome) ==
    IF outcome = "throw" THEN Response(Null, "An unexpected error occurred")
    ELSE IF outcome = "error" THEN Response(Null, "Failed to fetch bookings")
    ELSE Response(OrderByCreatedDesc({r \in Rows(slots) : r.status = status}),
                  NoError)

(***************************************************************************)
(* The slot calculator.                                                    *)
(***************************************************************************)
\* toLocaleTimeString("en-US", {hour: "2-digit", minute: "2-digit",
\* hour12: false}) of the time t: the label HH:MM, as the number HH*100+MM.
TimeSlotLabel(t) == ((t % DayMinutes) \div HourMinutes) * 100 + (t % HourMinutes)

RECURSIVE HourlyWalkInclusive(_, _)
HourlyWalkInclusive(current, end) ==
    IF current <= end
    THEN <<TimeSlotLabel(current)>>
             \o HourlyWalkInclusive(current + HourMinutes, end)
    ELSE <<>>

\* while (current < end) { push(label(current)); current.setHours(+1) }
RECURSIVE HourlyWalk(_, _)
HourlyWalk(current, end) ==
    IF current < end
    THEN <<TimeSlotLabel(current)>> \o HourlyWalk(current + HourMinutes, end)
    ELSE <<>>

\* .gte("start_time", date T00:00:00).lte("start_time", date T23:59:59)
StartsOn(row, date) ==
    /\ row.start_time >= date * DayMinutes
    /\ row.start_time <= date * DayMinutes + (DayMinutes - 1)

OccupyingStatusUnfiltered == BookingStatus

\* .in("status", ["pending", "approved"])
OccupyingStatus == {"pending", "approved"}

\* The rows the query of getTakenSlots returns, as ids.
QualifyingIds(tbl, date) ==
    {i \in DOMAIN tbl : StartsOn(tbl[i], date) /\ tbl[i].status \in OccupyingStatus}

\* forEach over the rows in the order the store returns them (no order is
\* asked for; the store's is taken to be by id).
RECURSIVE SlotsOf(_, _)
SlotsOf(tbl, ids) ==
    IF ids = {} THEN <<>>
    ELSE LET i == CHOOSE j \in ids : \A k \in ids : j <= k
         IN  HourlyWalk(tbl[i].start_time, tbl[i].end_time)
                 \o SlotsOf(tbl, ids \ {i})

getTakenSlots(tbl, date, outcome) ==
    IF outcome # "ok" THEN Failure(outcome, "Failed to fetch taken slots")
    ELSE Response(SlotsOf(tbl, QualifyingIds(tbl, date)), NoError)

(***************************************************************************)
(* Variables a specification does not use stay at these values.            *)
(***************************************************************************)
NoCall == [op |-> "none"]

ServiceUnused == last = NoCall
SessionUnused ==
    /\ accounts = {} /\ session = "none" /\ user = Null
    /\ authLoading = FALSE /\ cookie = "none" /\ pending = {}
AuthUnused == profiles = <<>> /\ resolved = NoCall /\ SessionUnused
DialogUnused == takenSlots = <<>> /\ slotFetches = <<>>
AppUnused ==
    /\ ctx = <<>> /\ isLoading = <<>> /\ fetches = <<>> /\ events = <<>>
    /\ pc = <<>> /\ editing = <<>> /\ deleting = <<>> /\ adminRows = <<>>
    /\ subscribed = <<>> /\ userBookings = <<>>
    /\ DialogUnused

(***************************************************************************)
(* SpecService: the booking service called directly.  The arguments are    *)
(* those the TypeScript types admit: a NewBooking object may carry further *)
(* fields (a status), and no function looks at the times it is given.      *)
(***************************************************************************)
SvcTimes == {10 * HourMinutes, 12 * HourMinutes}
SvcWindows == {w \in SvcTimes \X SvcTimes : w[1] # w[2]}
SvcIds == 1..MaxRows

SvcNewBookings ==
    LET plain == {[user_id |-> "u1", start_time |-> w[1], end_time |-> w[2],
                   reason |-> "r1"] : w \in SvcWindows}
    IN  plain \cup {Spread(b, [status |-> s]) : b \in plain, s \in BookingStatus}

\* BookingUpdate objects: new times, or a status.
SvcUpdates ==
    {[start_time |-> w[1], end_time |-> w[2]] : w \in SvcWindows}
        \cup [status : BookingStatus]

Call(op, id, req, resp, repeat) ==
    [op |-> op, id |-> id, req |-> req, resp |-> resp, repeat |-> repeat]

\* The call repeats the previous one, which the store applied.
Repeats(op, id, req) ==
    /\ last.op = op
    /\ last.id = id
    /\ last.req = req
    /\ last.resp.error = NoError

InitService ==
    /\ table = EmptyTable /\ nextId = 1
    /\ last = NoCall
    /\ AuthUnused /\ AppUnused

SvcCreate ==
    \E booking \in SvcNewBookings, outcome \in Outcomes :
        /\ nextId <= MaxRows
        /\ LET r == createBooking(table, nextId, booking, outcome)
           IN  /\ table' = r.table
               /\ nextId' = r.nextId
               /\ last' = Call("createBooking", nextId, booking, r.resp, FALSE)
        /\ UNCHANGED <<authVars, appVars>>

SvcUpdate ==
    \E id \in SvcIds, updates \in SvcUpdates, outcome \in Outcomes :
        /\ LET r == updateBooking(table, nextId, id, updates, outcome)
           IN  /\ table' = r.table
               /\ nextId' = r.nextId
               /\ last' = Call("updateBooking", id, updates, r.resp,
                               Repeats("updateBooking", id, updates))
        /\ UNCHANGED <<authVars, appVars>>

SvcUpdateStatus ==
    \E id \in SvcIds, status \in BookingStatus, outcome \in Outcomes :
        /\ LET r == updateBookingStatus(table, nextId, id, status, outcome)
           IN  /\ table' = r.table
               /\ nextId' = r.nextId
               /\ last' = Call("updateBookingStatus", id, [status |-> status],
                               r.resp,
                               Repeats("updateBookingStatus", id,
                                       [status |-> status]))
        /\ UNCHANGED <<authVars, appVars>>

SvcDelete ==
    \E id \in SvcIds, outcome \in Outcomes :
        /\ LET r == deleteBooking(table, nextId, id, outcome)
           IN  /\ table' = r.table
               /\ nextId' = r.nextId
               /\ last' = Call("deleteBooking", id, <<>>, r.resp, FALSE)
        /\ UNCHANGED <<authVars, appVars>>

NextService == SvcCreate \/ SvcUpdate \/ SvcUpdateStatus \/ SvcDelete

SpecService == InitService /\ [][NextService]_vars

\* C1: every booking createBooking persists has status "pending", whatever
\* status (or no status) the request carried; the row it reports is the row
\* in the table.
C1_CreateForcesPending ==
    (last.op = "createBooking" /\ last.resp.error = NoError
        /\ last.req.start_time < last.req.end_time)
    => /\ last.id \in DOMAIN table
       /\ table[last.id].status = "pending"
       /\ last.resp.data = table[last.id]
       /\ table[last.id].start_time = last.req.start_time
       /\ table[last.id].end_time = last.req.end_time

C1_Witness ==
    /\ last.op = "createBooking" /\ last.resp.error = NoError
    /\ last.req.start_time < last.req.end_time
    /\ "status" \in DOMAIN last.req
    /\ last.req.status = "approved"
    /\ table[last.id].status = "pending"

\* C7: a successful updateBookingStatus(id, s) that repeats the previous
\* successful updateBookingStatus(id, s) leaves the table as it was: applying
\* it twice gives the state applying it once gave.
C7_SetStatusIdempotent ==
    [][(last'.op = "updateBookingStatus" /\ last'.repeat
            /\ last'.resp.error = NoError)
        => table' = table]_vars

C7_Witness ==
    /\ last.op = "updateBookingStatus" /\ last.repeat
    /\ last.resp.error = NoError
    /\ last.id \in DOMAIN table
    /\ table[last.id].status = last.req.status

\* C2: createBooking, called with an end at or before the start, answers an
\* error and persists nothing.
C2_CreateRejectsInvalidRange ==
    (last.op = "createBooking" /\ last.req.end_time <= last.req.start_time)
        => /\ last.resp.error # NoError
           /\ last.id \notin DOMAIN table

(***************************************************************************)
(* SpecCreate: createBooking over a table that already holds up to MaxHeld *)
(* bookings of any owner, window and status, as earlier creations and      *)
(* status changes leave it.                                                *)
(***************************************************************************)
\* Windows of day 0: 10:00-12:00, 11:00-13:00 and 12:00-14:00.
CreateWindows ==
    {<<10 * HourMinutes, 12 * HourMinutes>>,
     <<11 * HourMinutes, 13 * HourMinutes>>,
     <<12 * HourMinutes, 14 * HourMinutes>>}

HeldShapes ==
    {[user_id |-> u, start_time |-> w[1], end_time |-> w[2], status |-> s,
      reason |-> "r1"] :
        u \in Users, w \in CreateWindows, s \in {"pending", "approved", "rejected"}}

HeldTables ==
    UNION {{[i \in 1..n |-> InsertedRow(f[i], i)] : f \in [1..n -> HeldShapes]}
           : n \in 0..MaxHeld}

InitCreate ==
    /\ table \in HeldTables
    /\ nextId = Cardinality(DOMAIN table) + 1
    /\ last = NoCall
    /\ AuthUnused /\ AppUnused

CreateOver ==
    \E u \in Users, w \in CreateWindows, outcome \in Outcomes :
        /\ nextId <= MaxHeld + MaxCreates
        /\ LET booking == [user_id |-> u, start_time |-> w[1],
                           end_time |-> w[2], reason |-> "r1"]
               r == createBooking(table, nextId, booking, outcome)
           IN  /\ table' = r.table
               /\ nextId' = r.nextId
               /\ last' = [op |-> "createBooking", id |-> nextId,
                           req |-> booking, resp |-> r.resp,
                           outcome |-> outcome]
        /\ UNCHANGED <<authVars, appVars>>

NextCreate == CreateOver

SpecCreate == InitCreate /\ [][NextCreate]_vars

Overlap(a, b) == a.start_time < b.end_time /\ b.start_time < a.end_time

\* C6: whenever the store accepts the insert, createBooking succeeds, whatever
\* bookings the table holds: the new row is persisted as requested, with
\* status "pending", and every row already held stays as it was.  No time
\* conflict makes it fail.
C6_CreateIgnoresConflicts ==
    [][(last'.op = "createBooking" /\ last'.outcome = "ok")
        => /\ last'.resp.error = NoError
           /\ last'.id \in DOMAIN table'
           /\ table'[last'.id] = last'.resp.data
           /\ table'[last'.id].user_id = last'.req.user_id
           /\ table'[last'.id].start_time = last'.req.start_time
           /\ table'[last'.id].end_time = last'.req.end_time
           /\ table'[last'.id].status = "pending"
           /\ \A i \in DOMAIN table : i \in DOMAIN table' /\ table'[i] = table[i]]_vars

\* A pending or approved booking is held, and a booking of another user for an
\* overlapping window of the same day has just been created beside it.
C6_Witness ==
    /\ last.op = "createBooking" /\ last.resp.error = NoError
    /\ last.id \in DOMAIN table
    /\ \E i \in DOMAIN table :
        /\ i < last.id
        /\ table[i].status \in {"pending", "approved"}
        /\ table[i].user_id # table[last.id].user_id
        /\ table[i].start_time \div DayMinutes
               = table[last.id].start_time \div DayMinutes
        /\ Overlap(table[i], table[last.id])

(***************************************************************************)
(* SpecHeld: updateBookingStatus and updateBooking on a table that holds   *)
(* up to MaxKept bookings, pending, approved or rejected.  `last` records  *)
(* the call, the store's answer to it and the row as it was before.        *)
(***************************************************************************)
MaxKept == 2

KeptTables ==
    {t \in UNION {{[i \in 1..n |-> InsertedRow(f[i], i)] : f \in [1..n -> HeldShapes]}
                  : n \in 0..MaxKept} :
        \A i \in DOMAIN t : /\ t[i].user_id = "u1"
                            /\ t[i].start_time = 10 * HourMinutes}

InitHeld ==
    /\ table \in KeptTables
    /\ nextId = Cardinality(DOMAIN table) + 1
    /\ last = NoCall
    /\ AuthUnused /\ AppUnused

\* The row a call is about, before the call.
Before(tbl, id) == IF id \in DOMAIN tbl THEN tbl[id] ELSE Null

HeldIds == 1..MaxKept

SetStatusOver ==
    \E id \in HeldIds, status \in Decisions, outcome \in Outcomes :
        /\ LET r == updateBookingStatus(table, nextId, id, status, outcome)
           IN  /\ table' = r.table
               /\ nextId' = r.nextId
               /\ last' = [op |-> "updateBookingStatus", id |-> id,
                           req |-> [status |-> status], resp |-> r.resp,
                           outcome |-> outcome, was |-> Before(table, id)]
        /\ UNCHANGED <<authVars, appVars>>

\* BookingUpdate objects: new times, or a new reason.
EditUpdates ==
    {[start_time |-> 12 * HourMinutes, end_time |-> 14 * HourMinutes],
     [reason |-> "r2"]}

EditOver ==
    \E id \in HeldIds, updates \in EditUpdates, outcome \in Outcomes :
        /\ LET r == updateBooking(table, nextId, id, updates, outcome)
           IN  /\ table' = r.table
               /\ nextId' = r.nextId
               /\ last' = [op |-> "updateBooking", id |-> id,
                           req |-> updates, resp |-> r.resp,
                           outcome |-> outcome, was |-> Before(table, id)]
        /\ UNCHANGED <<authVars, appVars>>

NextHeld == SetStatusOver \/ EditOver

SpecHeld == InitHeld /\ [][NextHeld]_vars

\* C11: updateBookingStatus(id, s), s approved or rejected, on a booking the
\* table holds, succeeds whenever the store accepts the update, whatever the
\* booking's status was (a decided booking can be re-decided either way), and
\* leaves the stored status equal to s.
C11_SetStatusFromAnyStatus ==
    [][(/\ last'.op = "updateBookingStatus"
        /\ last'.outcome = "ok"
        /\ last'.id \in DOMAIN table
        /\ last'.req.status \in Decisions)
        => /\ last'.resp.error = NoError
           /\ last'.id \in DOMAIN table'
           /\ table'[last'.id].status = last'.req.status
           /\ last'.resp.data = table'[last'.id]]_vars

\* A rejected booking has just been approved.
C11_Witness ==
    /\ last.op = "updateBookingStatus" /\ last.resp.error = NoError
    /\ last.was # Null
    /\ last.was.status = "rejected"
    /\ last.req.status = "approved"
    /\ table[last.id].status = "approved"

\* C12: a successful updateBooking(id, updates) gives the fields of `updates`
\* their new values on booking id, and changes nothing else: the fields not
\* supplied (the status in particular) keep their values, every other
\* booking stays as it was, and none is added or removed.
C12_EditChangesOnlySupplied ==
    [][(last'.op = "updateBooking" /\ last'.resp.error = NoError)
        => /\ last'.id \in DOMAIN table
           /\ DOMAIN table' = DOMAIN table
           /\ \A f \in DOMAIN last'.req :
                table'[last'.id][f] = last'.req[f]
           /\ \A f \in (DOMAIN table[last'.id]) \ (DOMAIN last'.req) :
                table'[last'.id][f] = table[last'.id][f]
           /\ DOMAIN table'[last'.id] = DOMAIN table[last'.id]
           /\ \A i \in (DOMAIN table) \ {last'.id} : table'[i] = table[i]]_vars

\* An approved booking has just been given new times, beside another booking.
C12_Witness ==
    /\ last.op = "updateBooking" /\ last.resp.error = NoError
    /\ last.was # Null
    /\ last.was.status = "approved"
    /\ "start_time" \in DOMAIN last.req
    /\ last.req.start_time # last.was.start_time
    /\ table[last.id].start_time = last.req.start_time
    /\ table[last.id].status = "approved"
    /\ \E i \in DOMAIN table : i # last.id

(***************************************************************************)
(* SpecRace: two writes to one booking, issued by two clients before       *)
(* either has reached the store, and reaching it in either order.  A write *)
(* is the administrator's updateBookingStatus or the owner's updateBooking *)
(* with the three fields the edit dialog sends.  `last` records the pair   *)
(* of writes, the row as it was when they were issued, and the writes that *)
(* have reached the store, in the order they did, with the store's answer. *)
(***************************************************************************)
StatusWrites ==
    {[kind |-> "updateBookingStatus", patch |-> [status |-> s]] : s \in Decisions}

\* updateBooking(booking.id, {start_time, end_time, reason})
EditWrites ==
    {[kind |-> "updateBooking",
      patch |-> [start_time |-> w[1], end_time |-> w[2], reason |-> r]] :
        w \in {<<12 * HourMinutes, 14 * HourMinutes>>,
               <<13 * HourMinutes, 15 * HourMinutes>>},
        r \in {"r2"}}

RaceWrites == StatusWrites \cup EditWrites

ApplyWrite(tbl, nid, id, w, outcome) ==
    IF w.kind = "updateBookingStatus"
    THEN updateBookingStatus(tbl, nid, id, w.patch.status, outcome)
    ELSE updateBooking(tbl, nid, id, w.patch, outcome)

InitRace ==
    /\ table \in KeptTables
    /\ nextId = Cardinality(DOMAIN table) + 1
    /\ last = NoCall
    /\ AuthUnused /\ AppUnused

Racing == last.op = "race" /\ Len(last.arrived) < 2

\* Two clients call the service for the same booking.
IssueWrites ==
    \E id \in DOMAIN table, w1 \in RaceWrites, w2 \in RaceWrites :
        /\ last = NoCall
        /\ last' = [op |-> "race", id |-> id, writes |-> <<w1, w2>>,
                    was |-> table[id], arrived |-> <<>>]
        /\ UNCHANGED <<storeVars, authVars, appVars>>

\* One of the two writes reaches the store.
WriteArrives ==
    \E k \in {1, 2}, outcome \in Outcomes :
        /\ Racing
        /\ \A n \in DOMAIN last.arrived : last.arrived[n].k # k
        /\ LET r == ApplyWrite(table, nextId, last.id, last.writes[k], outcome)
           IN  /\ table' = r.table
               /\ nextId' = r.nextId
               /\ last' = [last EXCEPT !.arrived =
                              Append(@, [k |-> k, outcome |-> outcome])]
        /\ UNCHANGED <<authVars, appVars>>

NextRace == IssueWrites \/ WriteArrives

SpecRace == InitRace /\ [][NextRace]_vars

\* Both writes have reached the store and the store applied both.
BothApplied ==
    /\ last.op = "race"
    /\ Len(last.arrived) = 2
    /\ \A n \in 1..2 : last.arrived[n].outcome = "ok"

\* The write that reached the store n-th.
Arrived(n) == last.writes[last.arrived[n].k]

\* C26: after two writes to one booking have both been applied, every field
\* a write supplied holds the value of the last of them to reach the store
\* that supplied it, and every other field is as it was; so a status change
\* and an edit of times and reason end, in either order, in the row with the
\* new status and the edited fields.
C26_LastWriteWinsPerField ==
    BothApplied =>
        LET row == table[last.id]
        IN  /\ DOMAIN row = DOMAIN last.was
            /\ \A f \in DOMAIN row :
                 row[f] = IF f \in DOMAIN Arrived(2).patch THEN Arrived(2).patch[f]
                          ELSE IF f \in DOMAIN Arrived(1).patch
                          THEN Arrived(1).patch[f]
                          ELSE last.was[f]
            /\ (Arrived(1).kind # Arrived(2).kind)
                 => row = Spread(Spread(last.was, last.writes[1].patch),
                                 last.writes[2].patch)

\* The owner's edit reached the store after the administrator's approval of
\* the pending booking: the row is approved and carries the edited fields.
C26_Witness ==
    /\ BothApplied
    /\ last.was.status = "pending"
    /\ Arrived(1).kind = "updateBookingStatus"
    /\ Arrived(1).patch.status = "approved"
    /\ Arrived(2).kind = "updateBooking"
    /\ table[last.id].status = "approved"
    /\ table[last.id].start_time = Arrived(2).patch.start_time
    /\ table[last.id].reason = "r2"

(***************************************************************************)
(* SpecSlots: the slot calculator over any table of at most                *)
(* MaxSlotBookings rows.  The table is drawn in Init and never written.    *)
(***************************************************************************)
\* Windows <<start, end>>: 10:00-12:00 of day 0; an end before the start;
\* 10:00-11:00 of day 1; 12:00 of day 0 to 11:00 of day 1, across midnight.
SlotWindows ==
    {<<10 * HourMinutes, 12 * HourMinutes>>,
     <<12 * HourMinutes, 10 * HourMinutes>>,
     <<DayMinutes + 10 * HourMinutes, DayMinutes + 11 * HourMinutes>>,
     <<12 * HourMinutes, DayMinutes + 11 * HourMinutes>>}
SlotDates == {0, 1}
SlotStatus == {"pending", "approved", "rejected"}

SlotShapes ==
    {[user_id |-> "u1", start_time |-> w[1], end_time |-> w[2],
      status |-> s, reason |-> "r1"] : w \in SlotWindows, s \in SlotStatus}

SlotTables ==
    UNION {{[i \in 1..n |-> InsertedRow(f[i], i)] : f \in [1..n -> SlotShapes]}
           : n \in 0..MaxSlotBookings}

InitSlots ==
    /\ table \in SlotTables
    /\ nextId = Cardinality(DOMAIN table) + 1
    /\ last = NoCall
    /\ AuthUnused /\ AppUnused

SlotsCall ==
    \E date \in SlotDates, outcome \in Outcomes :
        /\ last' = Call("getTakenSlots", date, <<>>,
                        getTakenSlots(table, date, outcome), FALSE)
        /\ UNCHANGED <<storeVars, authVars, appVars>>

NextSlots == SlotsCall

SpecSlots == InitSlots /\ [][NextSlots]_vars

OnTheHour(t) == t % HourMinutes = 0
DayOf(t) == t \div DayMinutes
HourOf(t) == (t % DayMinutes) \div HourMinutes
Occupies(row) == row.status \in {"pending", "approved"}
Elements(seq) == {seq[k] : k \in 1..Len(seq)}

\* C3: when exactly one pending or approved booking of the table starts on the
\* date asked for, and it runs from hour h1 to hour h2 of that day (on the
\* hour, h1 < h2), getTakenSlots returns the labels of h1, h1+1, ..., h2-1, in
\* that order and nothing else; the label of h2 is not among them.
C3_SlotsOfOneBooking ==
    (last.op = "getTakenSlots" /\ last.resp.error = NoError) =>
        \A i \in DOMAIN table :
            LET b == table[i]
                h1 == HourOf(b.start_time)
                h2 == HourOf(b.end_time)
            IN  (/\ Occupies(b)
                 /\ DayOf(b.start_time) = last.id
                 /\ DayOf(b.end_time) = last.id
                 /\ OnTheHour(b.start_time) /\ OnTheHour(b.end_time)
                 /\ h1 < h2
                 /\ \A j \in DOMAIN table \ {i} :
                        ~(Occupies(table[j])
                          /\ DayOf(table[j].start_time) = last.id))
                => /\ last.resp.data = [k \in 1..(h2 - h1) |-> (h1 + k - 1) * 100]
                   /\ h2 * 100 \notin Elements(last.resp.data)

C3_Witness ==
    /\ last.op = "getTakenSlots" /\ last.resp.error = NoError /\ last.id = 0
    /\ DOMAIN table = {1, 2}
    /\ table[1].status = "approved"
    /\ table[1].start_time = 10 * HourMinutes
    /\ table[1].end_time = 12 * HourMinutes
    /\ table[2].status = "rejected" /\ table[2].start_time = 10 * HourMinutes
    /\ last.resp.data = <<1000, 1100>>

\* C4: a label is in the result of getTakenSlots(date) exactly when some row
\* with status pending or approved whose start is on that date has the label
\* at start + k hours for some k with start + k hours < end; a rejected row
\* adds nothing.
Covers(row, label) ==
    \E k \in 0..((row.end_time - row.start_time) \div HourMinutes) :
        /\ row.start_time + k * HourMinutes < row.end_time
        /\ TimeSlotLabel(row.start_time + k * HourMinutes) = label

AllLabels == {h * 100 + m : h \in 0..23, m \in {0, 30}}

C4_OccupancyByStatus ==
    (last.op = "getTakenSlots" /\ last.resp.error = NoError) =>
        \A label \in AllLabels :
            label \in Elements(last.resp.data)
            <=> \E i \in DOMAIN table :
                    /\ table[i].status \in {"pending", "approved"}
                    /\ DayOf(table[i].start_time) = last.id
                    /\ Covers(table[i], label)

C4_Witness ==
    /\ last.op = "getTakenSlots" /\ last.resp.error = NoError /\ last.id = 1
    /\ DOMAIN table = {1, 2}
    /\ table[1].status = "rejected"
    /\ table[1].start_time = DayMinutes + 10 * HourMinutes
    /\ table[1].end_time = DayMinutes + 11 * HourMinutes
    /\ table[2].status = "pending"
    /\ table[2].start_time = 12 * HourMinutes
    /\ table[2].end_time = DayMinutes + 11 * HourMinutes
    /\ last.resp.data = <<>>

(***************************************************************************)
(* SpecWalk: the slot calculator in the time zone of the browser.  Times   *)
(* are instants; the Date methods of the walk (getHours, setHours,         *)
(* toLocaleTimeString) work on the local wall clock.  A zone is "fixed"    *)
(* (wall clock = instant) or "fallback": its clocks are one hour ahead     *)
(* until the instant Transition and are then set back by one hour, so the  *)
(* wall-clock hour 02:00-03:00 of day 0 happens twice.                     *)
(***************************************************************************)
MaxWalkBookings == 2

Zones == {"fixed", "fallback"}
Transition == 2 * HourMinutes

Offset(zone, t) == IF zone = "fallback" /\ t < Transition THEN HourMinutes ELSE 0

\* The wall-clock time of the instant t.
LocalTime(zone, t) == t + Offset(zone, t)

\* The instant of the wall-clock time w; the earlier one when w happens twice.
InstantOf(zone, w) ==
    IF LocalTime(zone, w - HourMinutes) = w THEN w - HourMinutes ELSE w

\* current.setHours(current.getHours() + 1) as one hour of elapsed time.
setHoursElapsed(zone, current) == current + HourMinutes

\* current.setHours(current.getHours() + 1): the hour field of the wall clock
\* is advanced by one and the instant of that wall-clock time is taken.
setHours(zone, current) == InstantOf(zone, LocalTime(zone, current) + HourMinutes)

\* while (current < end) { push(label(current)); current.setHours(+1) }
RECURSIVE HourlyWalkIn(_, _, _)
HourlyWalkIn(zone, current, end) ==
    IF current < end
    THEN <<TimeSlotLabel(LocalTime(zone, current))>>
             \o HourlyWalkIn(zone, setHours(zone, current), end)
    ELSE <<>>

RECURSIVE SlotsOfIn(_, _, _)
SlotsOfIn(zone, tbl, ids) ==
    IF ids = {} THEN <<>>
    ELSE LET i == CHOOSE j \in ids : \A k \in ids : j <= k
         IN  HourlyWalkIn(zone, tbl[i].start_time, tbl[i].end_time)
                 \o SlotsOfIn(zone, tbl, ids \ {i})

getTakenSlotsIn(zone, tbl, date, outcome) ==
    IF outcome # "ok" THEN Failure(outcome, "Failed to fetch taken slots")
    ELSE Response(SlotsOfIn(zone, tbl, QualifyingIds(tbl, date)), NoError)

\* Windows <<start, end>> of day 0: 01:00-04:00, across Transition;
\* 10:00-11:30, with a trailing half hour; 10:00-12:00; 12:00-10:00, the end
\* before the start.
WalkWindows ==
    {<<1 * HourMinutes, 4 * HourMinutes>>,
     <<10 * HourMinutes, 11 * HourMinutes + 30>>,
     <<10 * HourMinutes, 12 * HourMinutes>>,
     <<12 * HourMinutes, 10 * HourMinutes>>}

WalkShapes ==
    {[user_id |-> "u1", start_time |-> w[1], end_time |-> w[2],
      status |-> s, reason |-> "r1"] :
        w \in WalkWindows, s \in {"approved", "rejected"}}

WalkTables ==
    UNION {{[i \in 1..n |-> InsertedRow(f[i], i)] : f \in [1..n -> WalkShapes]}
           : n \in 0..MaxWalkBookings}

InitWalk ==
    /\ table \in WalkTables
    /\ nextId = Cardinality(DOMAIN table) + 1
    /\ last = NoCall
    /\ AuthUnused /\ AppUnused

WalkCall ==
    \E zone \in Zones, outcome \in Outcomes :
        /\ last' = [op |-> "getTakenSlots", id |-> 0, zone |-> zone,
                    resp |-> getTakenSlotsIn(zone, table, 0, outcome)]
        /\ UNCHANGED <<storeVars, authVars, appVars>>

\* The context's getTakenSlots: const { data } = await service; data || [].
contextGetTakenSlots(zone, tbl, date, outcome) ==
    LET r == getTakenSlotsIn(zone, tbl, date, outcome)
    IN  IF r.error = NoError THEN r.data ELSE <<>>

\* format(new Date(t), "HH:mm")
FormatHHmm(zone, t) == TimeSlotLabel(LocalTime(zone, t))

\* slots.filter((slot) => slot < bookingStart || slot >= bookingEnd)
filteredSlots(slots, bookingStart, bookingEnd) ==
    SelectSeq(slots, LAMBDA slot : slot < bookingStart \/ slot >= bookingEnd)

NextWalk == WalkCall

SpecWalk == InitWalk /\ [][NextWalk]_vars

\* The ids of a table in the order the rows are walked.
RECURSIVE Ascending(_)
Ascending(ids) ==
    IF ids = {} THEN <<>>
    ELSE LET i == CHOOSE j \in ids : \A k \in ids : j <= k
         IN  <<i>> \o Ascending(ids \ {i})

RECURSIVE Concat(_)
Concat(lists) ==
    IF lists = <<>> THEN <<>> ELSE Head(lists) \o Concat(Tail(lists))

\* The number of the times s, s + 1 hour, s + 2 hours, ... before e.
HoursBefore(s, e) ==
    IF e <= s THEN 0 ELSE (e - s + HourMinutes - 1) \div HourMinutes

\* One label for each time s + k hours before e.
ElapsedLabels(zone, row) ==
    [k \in 1..HoursBefore(row.start_time, row.end_time) |->
        TimeSlotLabel(LocalTime(zone, row.start_time + (k - 1) * HourMinutes))]

\* One label for each wall-clock time (wall clock of s) + k hours whose
\* instant is before e.
WallClockLabels(zone, row) ==
    LET w0 == LocalTime(zone, row.start_time)
        Visited == {k \in 0..HoursBefore(row.start_time, row.end_time) :
                       InstantOf(zone, w0 + k * HourMinutes) < row.end_time}
    IN  [k \in 1..Cardinality(Visited) |->
            TimeSlotLabel(w0 + (k - 1) * HourMinutes)]

PerBooking(zone, Labels(_, _)) ==
    LET ids == Ascending(QualifyingIds(table, last.id))
    IN  Concat([n \in 1..Len(ids) |-> Labels(zone, table[ids[n]])])

\* C24: the result of getTakenSlots is the concatenation, in the order of the
\* rows, of one list per qualifying booking; the list of a booking from s to e
\* has exactly one label for each wall-clock time that is a whole number of
\* hours after the wall-clock time of s and whose instant is before e.  A
\* trailing part of an hour adds no label, a booking with e <= s adds none,
\* and a label two bookings cover appears twice.
C24_WalkByWallClock ==
    (last.op = "getTakenSlots" /\ last.resp.error = NoError)
        => last.resp.data = PerBooking(last.zone, WallClockLabels)

\* Two approved bookings, 10:00-11:30 and 10:00-12:00: the first gives two
\* labels, and 10:00 and 11:00 both appear twice.
C24_Witness ==
    /\ last.op = "getTakenSlots" /\ last.resp.error = NoError
    /\ DOMAIN table = {1, 2}
    /\ table[1].status = "approved" /\ table[2].status = "approved"
    /\ table[1].start_time = 10 * HourMinutes
    /\ table[1].end_time = 11 * HourMinutes + 30
    /\ table[2].start_time = 10 * HourMinutes
    /\ table[2].end_time = 12 * HourMinutes
    /\ last.resp.data = <<1000, 1100, 1000, 1100>>

\* C24 as stated: the list of a booking from s to e has exactly one label for
\* each time s + k hours before e.
C24_WalkByElapsedHours ==
    (last.op = "getTakenSlots" /\ last.resp.error = NoError)
        => last.resp.data = PerBooking(last.zone, ElapsedLabels)

(***************************************************************************)
(* The role resolver.  A profile row may lack the role column's value: the *)
(* field is absent (undefined), null, or the empty string.                 *)
(***************************************************************************)
NullValue == "<null>"
AuthIds == {"a1", "a2"}
StoredRoles == {NullValue, "", "admin", "user", "manager"}

ProfileRows(id) ==
    {[id |-> id, email |-> id, name |-> id]}
        \cup {[id |-> id, email |-> id, name |-> id, role |-> r] : r \in StoredRoles}

\* A value `||` passes over: undefined, null, "".
Falsy(row, field) == field \notin DOMAIN row \/ row[field] \in {NullValue, ""}

\* `??` in place of `||`: only undefined and null are passed over.
getUserProfileNullish(profs, userId, outcome) ==
    IF outcome = "throw"
    THEN Response(Null, "An unexpected error occurred while fetching profile")
    ELSE IF outcome = "error"
    THEN Response(Null, "Failed to fetch user profile")
    ELSE IF userId \notin DOMAIN profs
    THEN Response(Null, "User profile not found")
    ELSE LET profile == profs[userId]
             role == IF "role" \notin DOMAIN profile \/ profile.role = NullValue
                     THEN "user" ELSE profile.role
         IN  Response([id |-> profile.id, email |-> profile.email,
                       name |-> profile.name, role |-> role], NoError)

\* single() in place of maybeSingle(): no row is an error of the query.
getUserProfileSingle(profs, userId, outcome) ==
    IF outcome = "throw"
    THEN Response(Null, "An unexpected error occurred while fetching profile")
    ELSE IF outcome = "error" \/ userId \notin DOMAIN profs
    THEN Response(Null, "Failed to fetch user profile")
    ELSE LET profile == profs[userId]
             role == IF Falsy(profile, "role") THEN "user" ELSE profile.role
         IN  Response([id |-> profile.id, email |-> profile.email,
                       name |-> profile.name, role |-> role], NoError)

getUserProfile(profs, userId, outcome) ==
    IF outcome = "throw"
    THEN Response(Null, "An unexpected error occurred while fetching profile")
    ELSE IF outcome = "error"
    THEN Response(Null, "Failed to fetch user profile")
    ELSE IF userId \notin DOMAIN profs
    THEN Response(Null, "User profile not found")
    ELSE LET profile == profs[userId]
             role == IF Falsy(profile, "role") THEN "user" ELSE profile.role
         IN  Response([id |-> profile.id, email |-> profile.email,
                       name |-> profile.name, role |-> role], NoError)

(***************************************************************************)
(* SpecAuth: getUserProfile over any profiles table of the identities.     *)
(***************************************************************************)
ProfileTables ==
    UNION {{[id \in ids |-> f[id]] :
                f \in {g \in [ids -> UNION {ProfileRows(id) : id \in ids}] :
                          \A id \in ids : g[id].id = id}}
           : ids \in SUBSET AuthIds}

InitAuth ==
    /\ profiles \in ProfileTables
    /\ resolved = NoCall
    /\ table = EmptyTable /\ nextId = 1
    /\ ServiceUnused /\ SessionUnused /\ AppUnused

ResolveProfile ==
    \E userId \in AuthIds, outcome \in Outcomes :
        /\ resolved' = [op |-> "getUserProfile", id |-> userId,
                        outcome |-> outcome,
                        resp |-> getUserProfile(profiles, userId, outcome)]
        /\ UNCHANGED <<storeVars, last, profiles, sessionVars, appVars>>

NextAuth == ResolveProfile

SpecAuth == InitAuth /\ [][NextAuth]_vars

Looked(userId) ==
    /\ resolved.op = "getUserProfile"
    /\ resolved.outcome = "ok"
    /\ resolved.id = userId

\* C8: when the profile row of the identity exists, getUserProfile returns a
\* profile of that identity and no error; its role is "user" when the row has
\* no role (the field absent, null or empty) and the stored role otherwise.
C8_RoleDefaultsToUser ==
    \A userId \in DOMAIN profiles :
        Looked(userId) =>
            LET row == profiles[userId]
                noRole == \/ "role" \notin DOMAIN row
                          \/ row.role = NullValue
                          \/ row.role = ""
            IN  /\ resolved.resp.error = NoError
                /\ resolved.resp.data.id = userId
                /\ noRole => resolved.resp.data.role = "user"
                /\ ~noRole => resolved.resp.data.role = row.role

C8_Witness ==
    /\ Looked("a1")
    /\ "a1" \in DOMAIN profiles
    /\ "role" \in DOMAIN profiles["a1"]
    /\ profiles["a1"].role = ""
    /\ resolved.resp.data.role = "user"

\* C9: for an identity with no profile row, getUserProfile returns no profile
\* and the error "User profile not found"; a failed lookup returns no profile
\* and another error; an existing row, with or without a role, returns none.
C9_NotFoundIsDistinct ==
    resolved.op = "getUserProfile" =>
        /\ (resolved.outcome = "ok" /\ resolved.id \notin DOMAIN profiles)
            => /\ resolved.resp.data = Null
               /\ resolved.resp.error = "User profile not found"
        /\ resolved.outcome # "ok"
            => /\ resolved.resp.data = Null
               /\ resolved.resp.error \notin {NoError, "User profile not found"}
        /\ (resolved.outcome = "ok" /\ resolved.id \in DOMAIN profiles)
            => /\ resolved.resp.error = NoError
               /\ resolved.resp.data # Null

C9_Witness ==
    /\ Looked("a2")
    /\ DOMAIN profiles = {"a1"}
    /\ resolved.resp.error = "User profile not found"
    /\ resolved.resp.data = Null

(***************************************************************************)
(* The remaining operations of the authentication service.  The auth       *)
(* collaborator answers signUp and signInWithPassword with "ok", an error, *)
(* a thrown exception, or no error and no user ("nouser").                 *)
(***************************************************************************)
SignOutcomes == Outcomes \cup {"nouser"}

AuthResult(profs, resp) == [profiles |-> profs, resp |-> resp]

\* insert() of a row whose id is already held is an error of the store.
registerUser(profs, id, name, role, signUp, insert) ==
    IF signUp = "throw" \/ (signUp = "ok" /\ insert = "throw")
    THEN AuthResult(profs,
            Response(Null, "An unexpected error occurred during registration"))
    ELSE IF signUp = "error"
    THEN AuthResult(profs, Response(Null, "authError.message"))
    ELSE IF signUp = "nouser"
    THEN AuthResult(profs, Response(Null, "Failed to create user account"))
    ELSE IF insert = "error" \/ id \in DOMAIN profs
    THEN AuthResult(profs, Response(Null, "Failed to create user profile"))
    ELSE LET row == [id |-> id, email |-> id, name |-> name, role |-> role]
         IN  AuthResult([i \in (DOMAIN profs) \cup {id} |->
                            IF i = id THEN row ELSE profs[i]],
                        Response(row, NoError))

loginUser(profs, id, signIn, lookup) ==
    IF signIn = "throw"
    THEN Response(Null, "An unexpected error occurred during login")
    ELSE IF signIn = "error" THEN Response(Null, "authError.message")
    ELSE IF signIn = "nouser"
    THEN Response(Null, "Login failed - no user returned")
    ELSE LET userProfile == getUserProfile(profs, id, lookup)
         IN  IF userProfile.data = Null
             THEN Response(Null, IF userProfile.error \in {NoError, ""}
                                 THEN "Failed to fetch profile"
                                 ELSE userProfile.error)
             ELSE Response(userProfile.data, NoError)

logoutUser(outcome) ==
    IF outcome = "throw"
    THEN Response(Null, "An unexpected error occurred during logout")
    ELSE IF outcome = "error" THEN Response(Null, "error.message")
    ELSE Response(Null, NoError)

(***************************************************************************)
(* SpecBoundary: every public operation of the two services, called with   *)
(* every answer of its collaborators, over a bookings table and a profiles *)
(* table that hold something.  `last` records the call, the answers the    *)
(* collaborators gave in the order they were asked, and what the operation *)
(* returned.                                                               *)
(***************************************************************************)
BoundaryIds == 1..(MaxHeld + 1)
BoundaryBooking ==
    [user_id |-> "u1", start_time |-> 10 * HourMinutes,
     end_time |-> 12 * HourMinutes, reason |-> "r1"]
BoundaryUpdate == [reason |-> "r2"]
BoundaryProfiles ==
    {p \in ProfileTables :
        \A id \in DOMAIN p : "role" \in DOMAIN p[id] /\ p[id].role = "admin"}

\* The answers given to an operation that asks a second collaborator only
\* when the first accepted.
TwoAnswers == {<<a>> : a \in SignOutcomes \ {"ok"}}
                  \cup {<<"ok", b>> : b \in Outcomes}

Returned(op, answers, resp) == [op |-> op, answers |-> answers, resp |-> resp]

BoundaryTables ==
    {t \in HeldTables :
        \A i \in DOMAIN t : /\ t[i].user_id = BoundaryBooking.user_id
                            /\ t[i].start_time = BoundaryBooking.start_time
                            /\ t[i].status = "pending"}

InitBoundary ==
    /\ table \in BoundaryTables
    /\ nextId = Cardinality(DOMAIN table) + 1
    /\ profiles \in BoundaryProfiles
    /\ last = NoCall
    /\ resolved = NoCall
    /\ SessionUnused /\ AppUnused

BoundaryQuery ==
    \E outcome \in Outcomes :
        /\ \/ last' = Returned("fetchAllBookings", <<outcome>>,
                               fetchAllBookings(table, outcome))
           \/ \E u \in Users :
                last' = Returned("fetchUserBookings", <<outcome>>,
                                 fetchUserBookings(table, u, outcome))
           \/ last' = Returned("fetchBookingsForDate", <<outcome>>,
                               fetchBookingsForDate(table, 0, outcome))
           \/ \E s \in BookingStatus :
                last' = Spread(
                    Returned("fetchBookingsByStatus", <<outcome>>,
                             fetchBookingsByStatus(Relation(table, "slots"), s,
                                                   Reply("slots", outcome))),
                    [status |-> s])
           \/ last' = Returned("getTakenSlots", <<outcome>>,
                               getTakenSlots(table, 0, outcome))
        /\ UNCHANGED <<storeVars, authVars, appVars>>

BoundaryCommand ==
    \E id \in BoundaryIds, outcome \in Outcomes :
        /\ \E c \in {[op |-> "createBooking",
                       r |-> createBooking(table, nextId, BoundaryBooking,
                                           outcome)],
                      [op |-> "updateBooking",
                       r |-> updateBooking(table, nextId, id, BoundaryUpdate,
                                           outcome)],
                      [op |-> "updateBookingStatus",
                       r |-> updateBookingStatus(table, nextId, id, "approved",
                                                 outcome)],
                      [op |-> "deleteBooking",
                       r |-> deleteBooking(table, nextId, id, outcome)]} :
                /\ c.r.nextId <= MaxHeld + 2
                /\ table' = c.r.table
                /\ nextId' = c.r.nextId
                /\ last' = Returned(c.op, <<outcome>>, c.r.resp)
        /\ UNCHANGED <<authVars, appVars>>

BoundaryRegister ==
    \E id \in AuthIds, answers \in TwoAnswers :
        /\ LET r == registerUser(profiles, id, id, "user", answers[1],
                                 answers[Len(answers)])
           IN  /\ profiles' = r.profiles
               /\ last' = Returned("registerUser", answers, r.resp)
        /\ UNCHANGED <<storeVars, resolved, sessionVars, appVars>>

BoundaryLogin ==
    \E id \in AuthIds, answers \in TwoAnswers :
        /\ last' = Returned("loginUser", answers,
                            loginUser(profiles, id, answers[1],
                                      answers[Len(answers)]))
        /\ UNCHANGED <<storeVars, authVars, appVars>>

BoundaryProfile ==
    \E id \in AuthIds, outcome \in Outcomes :
        /\ last' = Returned("getUserProfile", <<outcome>>,
                            getUserProfile(profiles, id, outcome))
        /\ UNCHANGED <<storeVars, authVars, appVars>>

BoundaryLogout ==
    \E outcome \in Outcomes :
        /\ last' = Returned("logoutUser", <<outcome>>, logoutUser(outcome))
        /\ UNCHANGED <<storeVars, authVars, appVars>>

NextBoundary ==
    \/ BoundaryQuery
    \/ BoundaryCommand
    \/ BoundaryRegister
    \/ BoundaryLogin
    \/ BoundaryProfile
    \/ BoundaryLogout

SpecBoundary == InitBoundary /\ [][NextBoundary]_vars

\* null, whatever the type of the value it is compared with: values of
\* different types are told apart by their printed form.
IsNull(v) == ToString(v) = ToString(Null)

\* A collaborator refused or threw.
Refused(answers) == \E k \in DOMAIN answers : answers[k] # "ok"

\* C15: whatever its collaborators answer, a thrown exception included, every
\* public operation of the two services returns an object of the fields data
\* and error and nothing else; data and error are never both set; and when a
\* collaborator refused or threw, data is null and error is set.
C15_FailuresAreReturned ==
    last.op # "none" =>
        /\ DOMAIN last.resp = {"data", "error"}
        /\ IsNull(last.resp.data) \/ last.resp.error = NoError
        /\ Refused(last.answers)
            => IsNull(last.resp.data) /\ last.resp.error # NoError

\* The profile insert of a registration threw after the sign-up succeeded,
\* and the registration returned an error and no data.
C15_Witness ==
    /\ last.op = "registerUser"
    /\ last.answers = <<"ok", "throw">>
    /\ IsNull(last.resp.data)
    /\ last.resp.error = "An unexpected error occurred during registration"

\* C23: when the store is reachable, fetchBookingsByStatus(s) returns no
\* error and exactly the rows of the bookings table whose status is s, newest
\* first.
C23_FetchByStatus ==
    (last.op = "fetchBookingsByStatus" /\ last.answers = <<"ok">>)
        => /\ last.resp.error = NoError
           /\ last.resp.data =
                OrderByCreatedDesc({r \in Rows(table) : r.status = last.status})

(***************************************************************************)
(* SpecSession: the AuthProvider of one browser over the auth collaborator *)
(* and the profiles table.  The provider registers its listener and asks   *)
(* for the current session when it mounts; login, register and logout are  *)
(* its three methods.  The collaborator pushes an event with the session's *)
(* identity whenever a sign-in, sign-up or sign-out changed the session.   *)
(* `pending` holds what has been started and not finished: the session     *)
(* query, events pushed and not yet handled, profile lookups in flight.    *)
(* The access token of a session is written as its identity.               *)
(***************************************************************************)
MaxPending == 2

NoSession == "none"

SessionQuery == [kind |-> "getCurrentSession", id |-> NoSession]
StartupLookup(id) == [kind |-> "startup getUserProfile", id |-> id]
EventLookup(id) == [kind |-> "event getUserProfile", id |-> id]
AuthEvent(id) == [kind |-> "event", id |-> id]

Lookups == {l \in pending : l.kind \in {"startup getUserProfile",
                                         "event getUserProfile"}}

\* session?.user || null, and null when the query failed or threw.
getCurrentSession(sess, outcome) == IF outcome = "ok" THEN sess ELSE NoSession

\* supabase.auth.onAuthStateChange: the collaborator calls back with the
\* identity of the session it now has.
onAuthStateChange(queue, sess) == queue \cup {AuthEvent(sess)}

\* Cookie.set("secret", access_token), reached when the sign-in returned a
\* user and no error, before the profile is looked up.
CookieAfterLogin(held, id, signIn, resp) ==
    IF signIn = "ok" THEN id ELSE held

\* if (data && !error) setUser(data)
SetUserOnSuccessAlways(held, resp, identity) ==
    IF resp.data = Null
    THEN [id |-> identity, email |-> identity, name |-> identity,
          role |-> "user"]
    ELSE resp.data

SetUserOnSuccess(held, resp, identity) ==
    IF ~(resp.data = Null) /\ resp.error = NoError THEN resp.data ELSE held

InitSession ==
    /\ profiles \in BoundaryProfiles
    /\ accounts = DOMAIN profiles
    /\ session \in {NoSession} \cup accounts
    /\ cookie \in {NoSession, session}
    /\ user = Null
    /\ authLoading = TRUE
    /\ pending = {SessionQuery}
    /\ last = NoCall /\ resolved = NoCall
    /\ table = EmptyTable /\ nextId = 1
    /\ AppUnused

\* getCurrentSession().then(...)
SessionAnswer(outcome) ==
    /\ SessionQuery \in pending
    /\ LET authUser == getCurrentSession(session, outcome)
       IN  IF authUser # NoSession
           THEN /\ pending' = (pending \ {SessionQuery})
                                 \cup {StartupLookup(authUser)}
                /\ UNCHANGED authLoading
           ELSE /\ pending' = pending \ {SessionQuery}
                /\ authLoading' = FALSE
    /\ UNCHANGED <<storeVars, last, profiles, resolved, accounts, session,
                   user, cookie, appVars>>

\* The listener, up to its await.
HandleAuthEvent(e) ==
    /\ e \in pending
    /\ e.kind = "event"
    /\ IF e.id # NoSession
       THEN /\ pending' = (pending \ {e}) \cup {EventLookup(e.id)}
            /\ UNCHANGED <<user, authLoading>>
       ELSE /\ pending' = pending \ {e}
            /\ user' = Null
            /\ authLoading' = FALSE
    /\ UNCHANGED <<storeVars, last, profiles, resolved, accounts, session,
                   cookie, appVars>>

\* const { data } = await getUserProfile(authUser.id); setUser(data);
\* setIsLoading(false), of the listener and of the session query alike.
LookupAnswer(l, outcome) ==
    /\ l \in Lookups
    /\ user' = getUserProfile(profiles, l.id, outcome).data
    /\ authLoading' = FALSE
    /\ pending' = pending \ {l}
    /\ UNCHANGED <<storeVars, last, profiles, resolved, accounts, session,
                   cookie, appVars>>

\* AuthProvider.login over loginUser.  The collaborator accepts the sign-in
\* of an identity it holds only.
Login(id, answers) ==
    /\ Cardinality(pending) < MaxPending
    /\ answers[1] = "ok" => id \in accounts
    /\ LET resp == loginUser(profiles, id, answers[1], answers[Len(answers)])
       IN  /\ last' = [op |-> "loginUser", id |-> id, answers |-> answers,
                       resp |-> resp]
           /\ cookie' = CookieAfterLogin(cookie, id, answers[1], resp)
           /\ user' = SetUserOnSuccess(user, resp, id)
    /\ IF answers[1] = "ok"
       THEN /\ session' = id
            /\ pending' = onAuthStateChange(pending, id)
       ELSE UNCHANGED <<session, pending>>
    /\ UNCHANGED <<storeVars, profiles, resolved, accounts, authLoading,
                   appVars>>

\* AuthProvider.register over registerUser.  The collaborator creates an
\* identity only for an email it does not hold yet.
Register(id, answers) ==
    /\ Cardinality(pending) < MaxPending
    /\ answers[1] = "ok" => id \notin accounts
    /\ LET r == registerUser(profiles, id, id, "user", answers[1],
                             answers[Len(answers)])
       IN  /\ last' = [op |-> "registerUser", id |-> id, answers |-> answers,
                       resp |-> r.resp]
           /\ profiles' = r.profiles
           /\ user' = SetUserOnSuccess(user, r.resp, id)
    /\ IF answers[1] = "ok"
       THEN /\ accounts' = accounts \cup {id}
            /\ session' = id
            /\ pending' = onAuthStateChange(pending, id)
       ELSE UNCHANGED <<accounts, session, pending>>
    /\ UNCHANGED <<storeVars, resolved, authLoading, cookie, appVars>>

\* AuthProvider.logout over logoutUser.
Logout(outcome) ==
    /\ Cardinality(pending) < MaxPending
    /\ last' = [op |-> "logoutUser", id |-> NoSession,
                answers |-> <<outcome>>, resp |-> logoutUser(outcome)]
    /\ user' = Null
    /\ IF outcome = "ok"
       THEN /\ session' = NoSession
            /\ pending' = onAuthStateChange(pending, NoSession)
       ELSE UNCHANGED <<session, pending>>
    /\ UNCHANGED <<storeVars, profiles, resolved, accounts, authLoading,
                   cookie, appVars>>

NextSession ==
    \/ \E outcome \in Outcomes : SessionAnswer(outcome)
    \/ \E e \in pending : HandleAuthEvent(e)
    \/ \E l \in pending, outcome \in Outcomes : LookupAnswer(l, outcome)
    \/ \E id \in AuthIds, answers \in TwoAnswers : Login(id, answers)
    \/ \E id \in AuthIds, answers \in TwoAnswers : Register(id, answers)
    \/ \E outcome \in Outcomes : Logout(outcome)

SpecSession == InitSession /\ [][NextSession]_vars

Orphans == accounts \ DOMAIN profiles

\* C21: a registration whose sign-up created the identity and whose profile
\* insert failed returns an error and no profile, leaves the identity with
\* the collaborator and no profile row for it, and does not touch the
\* provider's user; the user is never a profile of an identity without a
\* profile row; and a login of such an identity that the collaborator accepts
\* returns "User profile not found" and no profile.
C21_OrphanedIdentity ==
    [][/\ \A id \in AuthIds, answers \in TwoAnswers :
            /\ (Register(id, answers) /\ Len(answers) = 2 /\ answers[2] # "ok")
                => /\ IsNull(last'.resp.data)
                   /\ last'.resp.error # NoError
                   /\ id \in accounts'
                   /\ id \notin DOMAIN profiles'
                   /\ profiles' = profiles
                   /\ user' = user
            /\ (Login(id, answers) /\ id \in Orphans /\ answers = <<"ok", "ok">>)
                => /\ last'.resp = Response(Null, "User profile not found")
                   /\ user' = user
       /\ ~IsNull(user') => user'.id \in DOMAIN profiles'
      ]_vars

\* An identity without a profile row has signed in and was refused for it.
C21_Witness ==
    /\ last.op = "loginUser"
    /\ last.id \in Orphans
    /\ last.answers = <<"ok", "ok">>
    /\ last.resp.error = "User profile not found"
    /\ session = last.id
    /\ IsNull(user)

\* Nothing is in flight and no event waits for the listener.
Settled == pending = {}

\* C22: once the session query, every event pushed and every profile lookup
\* they started have completed, the provider's user is null when there is no
\* session and otherwise null or a profile of the session's identity, and
\* the loading flag is false.
C22_SettledUserIsSession ==
    Settled =>
        /\ authLoading = FALSE
        /\ session = NoSession => IsNull(user)
        /\ ~IsNull(user) => user.id = session

\* C28: the cookie changes only in a login that returns a profile; a login
\* that returns an error leaves it as it was.
C28_CookieOnlyOnSuccess ==
    [][/\ \A id \in AuthIds, answers \in TwoAnswers :
            (Login(id, answers) /\ IsNull(last'.resp.data))
                => cookie' = cookie
       /\ cookie' # cookie
            => \E id \in AuthIds, answers \in TwoAnswers : Login(id, answers)
      ]_vars

(***************************************************************************)
(* Spec: the application.  Every client is a signed-in browser holding a   *)
(* BookingProvider (ctx, isLoading), the booking form and its booking      *)
(* history; an administrator's client also holds the admin booking table.  *)
(* The store answers each request with an outcome of its own choosing.     *)
(*                                                                         *)
(* A context mutation is one step up to its `await refreshBookings()`: the *)
(* handler runs, the store applies the request and emits the change event, *)
(* and the continuation sends the refresh.  The answer of a                *)
(* fetchAllBookings is delivered in a later step, in any order.  A client  *)
(* starts a context mutation only when its previous one has returned.      *)
(***************************************************************************)
Clients == {"u1", "u2"}
Admins == {"u2"}
\* The clients that book; the administrator's client only administrates.
Bookers == {"u1"}

\* timeSlots, cut to its first labels; NoSlot is the empty selection "".
FormSlots == {900, 1000}
NoSlot == -1
FormReasons == {"", "r1"}
EditReasons == {"", "r2"}
SelectedDate == 0

\* The slot picker: a click sets the end only to a label after the start,
\* and every other click sets the start and clears the end.
FormStates ==
    {f \in [startTime : FormSlots \cup {NoSlot}, endTime : FormSlots \cup {NoSlot}] :
        \/ f.endTime = NoSlot
        \/ f.startTime # NoSlot /\ f.endTime > f.startTime}

\* new Date(selectedDate).setHours(hour, min, 0, 0)
FormTime(date, slot) ==
    date * DayMinutes + (slot \div 100) * HourMinutes + (slot % 100)

\* if (endDateTime <= startDateTime)
InvalidRange(startDateTime, endDateTime) == endDateTime <= startDateTime

\* if (!startTime || !endTime || !reason.trim())
MissingInformation(startTime, endTime, reason) ==
    startTime = NoSlot \/ endTime = NoSlot \/ reason = ""

Idle == [op |-> "idle"]

\* const { data } = await fetchAllBookings(): a request in flight carries
\* what its continuation will destructure.  fetchAllBookings answers
\* `data: null` exactly when it answers an error, and an array otherwise.
Fetch(kind, resp) ==
    [kind |-> kind, hasData |-> resp.error = NoError,
     data |-> IF resp.error = NoError THEN resp.data ELSE <<>>]

\* The requests of a client that are in flight.
CanFetch(c) == Cardinality(fetches[c]) < MaxInFlight

\* The store reads when the request reaches it, modelled as the moment it is
\* sent; the answer then travels for any length of time.
Send(c, kind, tbl, outcome) ==
    [fetches EXCEPT ![c] = @ \cup {Fetch(kind, fetchAllBookings(tbl, outcome))}]

\* postgres_changes, event "*": every client's handler has an event to
\* handle.  Events waiting for the same handler are not told apart.
Emitted(applied) ==
    [c \in Clients |-> subscribed[c] /\ (applied \/ events[c])]

\* A context mutation after its service call answered `resp`:
\*   if (!error) { await refreshBookings(); return true; }
\*   refreshBookings(); return false;         (updateBooking: return false;)
\* pc holds the mutation that awaits its refresh and the row the store
\* answered with.
AfterService(c, op, id, resp, tbl, outcome) ==
    IF resp.error = NoError
    THEN /\ pc' = [pc EXCEPT ![c] = [op |-> op, id |-> id, row |-> resp.data]]
         /\ fetches' = Send(c, "awaited", tbl, outcome)
    ELSE /\ UNCHANGED pc
         /\ fetches' = IF op = "updateBooking" THEN fetches
                       ELSE Send(c, "refresh", tbl, outcome)

\* The context's getUserBookings: bookings.filter(b => b.user_id === userId)
getUserBookings(rows, userId) ==
    {rows[k] : k \in {j \in DOMAIN rows : rows[j].user_id = userId}}

\* BookingHistory's effect, which runs after every render of the provider:
\* setUserBookings(getUserBookings(user.id).sort(created_at descending))
SortedUserBookings(rows, userId) ==
    OrderByCreatedDesc(getUserBookings(rows, userId))

\* useEffect(() => { refreshBookings(); subscribeToBookings(setBookings) }, [])
\* has run in every client: the first refresh is in flight.
Init ==
    /\ table = EmptyTable /\ nextId = 1
    /\ ctx = [c \in Clients |-> <<>>]
    /\ isLoading = [c \in Clients |-> TRUE]
    /\ fetches \in [Clients -> {{Fetch("refresh", fetchAllBookings(EmptyTable, o))}
                                : o \in Outcomes}]
    /\ events = [c \in Clients |-> FALSE]
    /\ pc = [c \in Clients |-> Idle]
    /\ editing = [c \in Clients |-> Null]
    /\ deleting = [c \in Clients |-> Null]
    /\ adminRows = [c \in Clients |-> Null]
    /\ subscribed = [c \in Clients |-> TRUE]
    /\ userBookings = [c \in Clients |-> <<>>]
    /\ DialogUnused
    /\ ServiceUnused /\ AuthUnused

\* BookingModal.handleSubmit, with addBooking of the context and
\* createBooking of the service.  A refused submission only shows a toast.
ModalSubmit(c, startTime, endTime, reason) ==
    LET startDateTime == FormTime(SelectedDate, startTime)
        endDateTime == FormTime(SelectedDate, endTime)
    IN  IF \/ MissingInformation(startTime, endTime, reason)
           \/ InvalidRange(startDateTime, endDateTime)
        THEN UNCHANGED vars
        ELSE /\ c \in Bookers
             /\ pc[c] = Idle /\ CanFetch(c)
             /\ nextId <= MaxBookings
             /\ \E outcome \in Outcomes, refresh \in Outcomes :
                  LET r == createBooking(table, nextId,
                             [user_id |-> c, start_time |-> startDateTime,
                              end_time |-> endDateTime, reason |-> reason],
                             outcome)
                  IN  /\ table' = r.table
                      /\ nextId' = r.nextId
                      /\ events' = Emitted(r.resp.error = NoError)
                      /\ AfterService(c, "addBooking", nextId, r.resp,
                                      r.table, refresh)
             /\ UNCHANGED <<last, authVars, ctx, isLoading, editing,
                            deleting, adminRows, subscribed,
                   userBookings,
                   dialogVars>>

\* setBookings(data || []) in place of if (data) setBookings(data).
DeliverDataOrEmpty(c) ==
    \E f \in fetches[c] :
        /\ fetches' = [fetches EXCEPT ![c] = @ \ {f}]
        /\ ctx' = [ctx EXCEPT ![c] = IF f.hasData THEN f.data ELSE <<>>]
        /\ isLoading' = [isLoading EXCEPT ![c] = IF f.kind = "notify" THEN @ ELSE FALSE]
        /\ pc' = [pc EXCEPT ![c] = IF f.kind = "awaited" THEN Idle ELSE @]
        /\ editing' = [editing EXCEPT ![c] =
                IF f.kind = "awaited" /\ pc[c].op = "updateBooking" THEN Null ELSE @]
        /\ userBookings' = [userBookings EXCEPT ![c] =
                IF f.hasData THEN SortedUserBookings(f.data, c) ELSE @]
        /\ UNCHANGED <<storeVars, last, authVars, events, deleting, adminRows,
                       subscribed,
                   dialogVars>>

\* The continuation of a fetchAllBookings that was answered, with the render
\* and the effects that follow the change of state:
\*   refreshBookings: if (data) setBookings(data); setIsLoading(false);
\*   the change handler: if (data) callback(data), callback being setBookings;
\*   an awaited refresh then returns true from its context mutation, and
\*   EditBookingModal closes: onOpenChange(false).
Deliver(c) ==
    \E f \in fetches[c] :
        /\ fetches' = [fetches EXCEPT ![c] = @ \ {f}]
        /\ ctx' = [ctx EXCEPT ![c] = IF f.hasData THEN f.data ELSE @]
        /\ isLoading' = [isLoading EXCEPT ![c] = IF f.kind = "notify" THEN @ ELSE FALSE]
        /\ pc' = [pc EXCEPT ![c] = IF f.kind = "awaited" THEN Idle ELSE @]
        /\ editing' = [editing EXCEPT ![c] =
                IF f.kind = "awaited" /\ pc[c].op = "updateBooking" THEN Null ELSE @]
        /\ userBookings' = [userBookings EXCEPT ![c] =
                IF f.hasData THEN SortedUserBookings(f.data, c) ELSE @]
        /\ UNCHANGED <<storeVars, last, authVars, events, deleting, adminRows,
                       subscribed,
                   dialogVars>>

\* The handler subscribeToBookings registers: on a change event, refetch.
\* `bound` caps the client's requests in flight.
HandleChangeWithin(c, bound) ==
    /\ subscribed[c]
    /\ events[c]
    /\ Cardinality(fetches[c]) < bound
    /\ events' = [events EXCEPT ![c] = FALSE]
    /\ \E outcome \in Outcomes : fetches' = Send(c, "notify", table, outcome)
    /\ UNCHANGED <<storeVars, last, authVars, ctx, isLoading, pc, editing,
                   deleting, adminRows, subscribed,
                   userBookings,
                   dialogVars>>

HandleChange(c) == HandleChangeWithin(c, MaxInFlight)

\* BookingHistory's cards with actions: the client's own bookings in its
\* context, `showActions && booking.status === "pending"`.
Cards(c) ==
    {ctx[c][k] : k \in {j \in DOMAIN ctx[c] :
                            /\ ctx[c][j].user_id = c
                            /\ ctx[c][j].status = "pending"}}

\* What the handlers of the edit and delete dialogs read of the booking
\* they were opened on.
Opened(booking) == [id |-> booking.id, start_time |-> booking.start_time]

\* The handler with the new row prepended, no exception raised.
HistoryInsertPrepends(c) ==
    \E i \in DOMAIN table :
        /\ userBookings' = [userBookings EXCEPT ![c] = <<table[i]>> \o @]
        /\ UNCHANGED <<storeVars, last, authVars, ctx, isLoading, fetches,
                       events, pc, editing, deleting, adminRows, subscribed,
                   dialogVars>>

\* BookingHistory's own channel, event "INSERT", with payload.new the row
\* inserted, of a row the store holds:
\*   const filteredArr = payload.new.filter(...);
\*   setUserBookings((prev) => [filteredArr, ...prev]);
\* A row has no property "filter": the call raises a TypeError and the
\* handler ends there.
HistoryInsert(c) ==
    \E i \in DOMAIN table :
        LET newArr == table[i]
        IN  IF "filter" \notin DOMAIN newArr
            THEN UNCHANGED vars
            ELSE /\ userBookings' =
                        [userBookings EXCEPT ![c] = <<newArr.filter>> \o @]
                 /\ UNCHANGED <<storeVars, last, authVars, ctx, isLoading,
                                fetches, events, pc, editing, deleting,
                                adminRows, subscribed,
                   dialogVars>>

\* onClick={() => setEditingBooking(booking)}
OpenEdit(c) ==
    \E booking \in Cards(c) :
        /\ editing[c] = Null
        /\ editing' = [editing EXCEPT ![c] = Opened(booking)]
        /\ UNCHANGED <<storeVars, last, authVars, ctx, isLoading, fetches,
                       events, pc, deleting, adminRows, subscribed,
                   userBookings,
                   dialogVars>>

\* onOpenChange={(open) => !open && setEditingBooking(null)}
CloseEdit(c) ==
    /\ editing[c] # Null
    /\ editing' = [editing EXCEPT ![c] = Null]
    /\ UNCHANGED <<storeVars, last, authVars, ctx, isLoading, fetches,
                   events, pc, deleting, adminRows, subscribed,
                   userBookings,
                   dialogVars>>

\* EditBookingModal.handleSubmit, with updateBooking of the context and of
\* the service.  The times go out as Date.toString() text, which the store
\* parses or refuses: its outcome.
EditSubmit(c, startTime, endTime, reason) ==
    /\ editing[c] # Null
    /\ LET booking == editing[c]
           selectedDate == booking.start_time \div DayMinutes
           startDateTime == FormTime(selectedDate, startTime)
           endDateTime == FormTime(selectedDate, endTime)
       IN  IF \/ MissingInformation(startTime, endTime, reason)
              \/ InvalidRange(startDateTime, endDateTime)
           THEN UNCHANGED vars
           ELSE /\ pc[c] = Idle /\ CanFetch(c)
                /\ \E outcome \in Outcomes, refresh \in Outcomes :
                     LET r == updateBooking(table, nextId, booking.id,
                                [start_time |-> startDateTime,
                                 end_time |-> endDateTime, reason |-> reason],
                                outcome)
                     IN  /\ table' = r.table
                         /\ nextId' = r.nextId
                         /\ events' = Emitted(r.resp.error = NoError)
                         /\ AfterService(c, "updateBooking", booking.id, r.resp,
                                         r.table, refresh)
                /\ UNCHANGED <<last, authVars, ctx, isLoading, editing,
                               deleting, adminRows, subscribed,
                   userBookings,
                   dialogVars>>

\* onClick={() => setDeletingBooking(booking)}
OpenDelete(c) ==
    \E booking \in Cards(c) :
        /\ deleting[c] = Null
        /\ deleting' = [deleting EXCEPT ![c] = Opened(booking)]
        /\ UNCHANGED <<storeVars, last, authVars, ctx, isLoading, fetches,
                       events, pc, editing, adminRows, subscribed,
                   userBookings,
                   dialogVars>>

\* onOpenChange={(open) => !open && setDeletingBooking(null)}
CancelDelete(c) ==
    /\ deleting[c] # Null
    /\ deleting' = [deleting EXCEPT ![c] = Null]
    /\ UNCHANGED <<storeVars, last, authVars, ctx, isLoading, fetches,
                   events, pc, editing, adminRows, subscribed,
                   userBookings,
                   dialogVars>>

\* BookingHistory.handleDelete, with deleteBooking of the context and of the
\* service.
HandleDelete(c) ==
    /\ deleting[c] # Null
    /\ pc[c] = Idle /\ CanFetch(c)
    /\ \E outcome \in Outcomes, refresh \in Outcomes :
         LET id == deleting[c].id
             r == deleteBooking(table, nextId, id, outcome)
             applied == r.resp.error = NoError /\ id \in DOMAIN table
         IN  /\ table' = r.table
             /\ nextId' = r.nextId
             /\ events' = Emitted(applied)
             /\ AfterService(c, "deleteBooking", id, r.resp, r.table, refresh)
    /\ deleting' = [deleting EXCEPT ![c] = Null]
    /\ UNCHANGED <<last, authVars, ctx, isLoading, editing, adminRows,
                   subscribed,
                   userBookings,
                   dialogVars>>

\* AdminBookingTable filter="pending" mounts (its tab is opened):
\*   useEffect(() => setFilteredBookings(bookings.filter(...)), [])
\* Only this table shows rows with the approve and reject buttons.
SelectStatus(rows, status) ==
    LET keep == {k \in DOMAIN rows : rows[k].status = status}
        F[k \in 0..Len(rows)] ==
            IF k = 0 THEN <<>>
            ELSE IF k \in keep THEN Append(F[k - 1], rows[k]) ELSE F[k - 1]
    IN  F[Len(rows)]

AdminMount(c) ==
    /\ c \in Admins
    /\ adminRows[c] = Null
    /\ adminRows' = [adminRows EXCEPT ![c] = [rows |-> SelectStatus(ctx[c], "pending")]]
    /\ UNCHANGED <<storeVars, last, authVars, ctx, isLoading, fetches, events,
                   pc, editing, deleting, subscribed,
                   userBookings,
                   dialogVars>>

\* Another tab is opened: the table unmounts.
AdminUnmount(c) ==
    /\ adminRows[c] # Null
    /\ adminRows' = [adminRows EXCEPT ![c] = Null]
    /\ UNCHANGED <<storeVars, last, authVars, ctx, isLoading, fetches, events,
                   pc, editing, deleting, subscribed,
                   userBookings,
                   dialogVars>>

\* handleApprove / handleReject of a row the table shows as pending, with
\* updateBookingStatus of the context and of the service.
AdminSetStatus(c, status) ==
    /\ adminRows[c] # Null
    /\ pc[c] = Idle /\ CanFetch(c)
    /\ \E k \in DOMAIN adminRows[c].rows, outcome \in Outcomes, refresh \in Outcomes :
         LET id == adminRows[c].rows[k].id
             r == updateBookingStatus(table, nextId, id, status, outcome)
         IN  /\ adminRows[c].rows[k].status = "pending"
             /\ table' = r.table
             /\ nextId' = r.nextId
             /\ events' = Emitted(r.resp.error = NoError)
             /\ AfterService(c, "updateBookingStatus", id, r.resp, r.table,
                             refresh)
    /\ UNCHANGED <<last, authVars, ctx, isLoading, editing, deleting,
                   adminRows, subscribed,
                   userBookings,
                   dialogVars>>

Next ==
    \E c \in Clients :
        \/ \E f \in FormStates, reason \in FormReasons :
                ModalSubmit(c, f.startTime, f.endTime, reason)
        \/ Deliver(c)
        \/ HandleChange(c)
        \/ HistoryInsert(c)
        \/ OpenEdit(c)
        \/ CloseEdit(c)
        \/ \E f \in FormStates, reason \in EditReasons :
                EditSubmit(c, f.startTime, f.endTime, reason)
        \/ OpenDelete(c)
        \/ CancelDelete(c)
        \/ HandleDelete(c)
        \/ AdminMount(c)
        \/ AdminUnmount(c)
        \/ \E status \in Decisions : AdminSetStatus(c, status)

Spec == Init /\ [][Next]_vars

Entries(list, id) == {k \in DOMAIN list : list[k].id = id}

\* The list shows the mutation `m` of row m.id: a deleted row is absent; a
\* created or updated row that the store still holds as the mutation left it
\* appears once, with those values.
Reflects(list, m, tbl) ==
    IF m.op = "deleteBooking" THEN Entries(list, m.id) = {}
    ELSE (m.id \in DOMAIN tbl /\ tbl[m.id] = m.row)
            => /\ Cardinality(Entries(list, m.id)) = 1
               /\ \A k \in Entries(list, m.id) : list[k] = m.row

\* C5: when a context mutation returns true (its awaited refresh has been
\* delivered), the client's booking list reflects the mutation exactly once.
C5_SuccessIsReflected ==
    [][\A c \in Clients :
        (pc[c] # Idle /\ pc'[c] = Idle) => Reflects(ctx'[c], pc[c], table')]_vars

\* C10: the store applies an owner's edit or delete only to a booking whose
\* stored status is "pending" at that moment.
C10_OwnerWritesOnlyPending ==
    [][\A c \in Clients :
        (/\ pc[c] = Idle /\ pc'[c] # Idle
         /\ pc'[c].op \in {"updateBooking", "deleteBooking"}
         /\ pc'[c].id \in DOMAIN table)
            => table[pc'[c].id].status = "pending"]_vars

\* C27: the administrator's table has the store apply a status change only
\* to a booking whose stored status is "pending" at that moment.
C27_AdminDecidesOnlyPending ==
    [][\A c \in Admins :
        (/\ pc[c] = Idle /\ pc'[c] # Idle
         /\ pc'[c].op = "updateBookingStatus")
            => /\ pc'[c].id \in DOMAIN table
               /\ table[pc'[c].id].status = "pending"]_vars

(***************************************************************************)
(* SpecDialog: the edit dialog of BookingHistory in one browser, over a    *)
(* table that is not written meanwhile.  BookingHistory renders one        *)
(* EditBookingModal and passes it editingBooking: the dialog's takenSlots  *)
(* state lives as long as the history view.  Opening the dialog on a card  *)
(* runs the taken-slots effect, which asks the calculator for the date of  *)
(* the booking; the continuation of each call filters the answer by the    *)
(* window of the booking the effect ran for and stores it.  `last` records *)
(* the call whose continuation ran last.                                   *)
(***************************************************************************)
MaxDialogBookings == 2
MaxSlotFetches == 2

BrowserZone == "fixed"

\* Windows of day 0: 10:00-12:00, 12:00-14:00, and 11:00-13:00 overlapping
\* both.
DialogWindows ==
    {<<10 * HourMinutes, 12 * HourMinutes>>,
     <<12 * HourMinutes, 14 * HourMinutes>>,
     <<11 * HourMinutes, 13 * HourMinutes>>}

DialogShapes ==
    {[user_id |-> "u1", start_time |-> w[1], end_time |-> w[2],
      status |-> s, reason |-> "r1"] :
        w \in DialogWindows, s \in {"pending", "approved"}}

DialogTables ==
    UNION {{[i \in 1..n |-> InsertedRow(f[i], i)] : f \in [1..n -> DialogShapes]}
           : n \in 0..MaxDialogBookings}

InitDialog ==
    /\ table \in DialogTables
    /\ nextId = Cardinality(DOMAIN table) + 1
    /\ last = NoCall
    /\ AuthUnused
    /\ ctx = <<>> /\ isLoading = <<>> /\ fetches = <<>> /\ events = <<>>
    /\ pc = <<>> /\ deleting = <<>> /\ adminRows = <<>>
    /\ subscribed = <<>> /\ userBookings = <<>>
    /\ editing = [c \in Bookers |-> Null]
    /\ takenSlots = [c \in Bookers |-> <<>>]
    /\ slotFetches = [c \in Bookers |-> {}]

\* The cards with an edit button: the client's pending bookings.
DialogCards(c) ==
    {table[i] : i \in {j \in DOMAIN table : /\ table[j].user_id = c
                                            /\ table[j].status = "pending"}}

\* setEditingBooking(booking), and the effect of the dialog on [open,
\* booking]: getTakenSlots(selectedDate) is called.
DialogOpen(c) ==
    \E booking \in DialogCards(c), outcome \in Outcomes :
        /\ editing[c] = Null
        /\ Cardinality(slotFetches[c]) < MaxSlotFetches
        /\ editing' = [editing EXCEPT ![c] = booking]
        /\ slotFetches' =
             [slotFetches EXCEPT ![c] = @ \cup
                {[booking |-> booking, outcome |-> outcome,
                  slots |-> contextGetTakenSlots(BrowserZone, table,
                                DayOf(booking.start_time), outcome)]}]
        /\ UNCHANGED <<storeVars, last, authVars, ctx, isLoading, fetches,
                       events, pc, deleting, adminRows, subscribed,
                       userBookings, takenSlots>>

\* onOpenChange(false): setEditingBooking(null).
DialogClose(c) ==
    /\ editing[c] # Null
    /\ editing' = [editing EXCEPT ![c] = Null]
    /\ UNCHANGED <<storeVars, last, authVars, ctx, isLoading, fetches,
                   events, pc, deleting, adminRows, subscribed,
                   userBookings, dialogVars>>

\* .then((slots) => { ...; setTakenSlots(filteredSlots) }) of one call.
SlotsArrive(c) ==
    \E f \in slotFetches[c] :
        /\ takenSlots' =
             [takenSlots EXCEPT ![c] =
                filteredSlots(f.slots,
                              FormatHHmm(BrowserZone, f.booking.start_time),
                              FormatHHmm(BrowserZone, f.booking.end_time))]
        /\ slotFetches' = [slotFetches EXCEPT ![c] = @ \ {f}]
        /\ last' = [op |-> "getTakenSlots", booking |-> f.booking.id,
                    outcome |-> f.outcome, slots |-> f.slots]
        /\ UNCHANGED <<storeVars, authVars, ctx, isLoading, fetches, events,
                       pc, editing, deleting, adminRows, subscribed,
                       userBookings>>

NextDialog ==
    \E c \in Bookers : DialogOpen(c) \/ DialogClose(c) \/ SlotsArrive(c)

SpecDialog == InitDialog /\ [][NextDialog]_vars

\* The dialog of c is open and every call it made has been answered.
DialogSettled(c) == ~IsNull(editing[c]) /\ slotFetches[c] = {}

InOwnRange(booking, label) ==
    /\ FormatHHmm(BrowserZone, booking.start_time) <= label
    /\ label < FormatHHmm(BrowserZone, booking.end_time)

\* C25: once the calls of the edit dialog have been answered, the slots the
\* dialog of booking B shows as taken contain no label L with
\* start label of B <= L < end label of B.
C25_OwnRangeIsFree ==
    \A c \in Bookers :
        DialogSettled(c) =>
            \A k \in DOMAIN takenSlots[c] :
                ~InOwnRange(editing[c], takenSlots[c][k])

\* C30: in the edit dialog of booking B, after the calculator answered the
\* call made for B, every label that another pending or approved booking of
\* that date occupies is shown as taken.
C30_OthersStayTaken ==
    \A c \in Bookers :
        (/\ DialogSettled(c)
         /\ last.op = "getTakenSlots" /\ last.outcome = "ok"
         /\ last.booking = editing[c].id)
            => \A j \in QualifyingIds(table, 0) \ {editing[c].id} :
                 \A label \in Elements(WallClockLabels(BrowserZone, table[j])) :
                    label \in Elements(takenSlots[c])

(***************************************************************************)
(* SpecContext: the BookingProvider of the booking client, alone: its four *)
(* mutations called as the components call them, its change handler and    *)
(* its unmounting, with the store answering each service call and each     *)
(* fetch as it chooses, in any order.  `last` records the                  *)
(* call and whether the service answered an error, on which the mutation   *)
(* returns false at once; a mutation whose service call succeeded returns  *)
(* true when its awaited refresh is delivered.                             *)
(***************************************************************************)
ContextIds == 1..MaxBookings
\* The requests a client's change handler may have in flight together.
MaxOverlap == 2
ContextBooking ==
    [user_id |-> "u1", start_time |-> FormTime(SelectedDate, 900),
     end_time |-> FormTime(SelectedDate, 1000), reason |-> "r1"]
ContextUpdate == [reason |-> "r2"]

ContextCall(c, op, id, r, refresh) ==
    /\ subscribed[c]
    /\ pc[c] = Idle /\ Cardinality(fetches[c]) < MaxOverlap
    /\ table' = r.table
    /\ nextId' = r.nextId
    /\ events' = Emitted(r.resp.error = NoError)
    /\ AfterService(c, op, id, r.resp, r.table, refresh)
    /\ last' = [op |-> op, client |-> c, id |-> id,
                failed |-> r.resp.error # NoError]
    /\ UNCHANGED <<authVars, ctx, isLoading, editing, deleting, adminRows,
                   subscribed,
                   userBookings,
                   dialogVars>>

ContextAdd(c) ==
    \E outcome \in Outcomes, refresh \in Outcomes :
        /\ nextId <= MaxBookings
        /\ ContextCall(c, "addBooking", nextId,
                       createBooking(table, nextId, ContextBooking, outcome),
                       refresh)

ContextUpdateBooking(c) ==
    \E id \in ContextIds, outcome \in Outcomes, refresh \in Outcomes :
        ContextCall(c, "updateBooking", id,
                    updateBooking(table, nextId, id, ContextUpdate, outcome),
                    refresh)

ContextDelete(c) ==
    \E id \in ContextIds, outcome \in Outcomes, refresh \in Outcomes :
        ContextCall(c, "deleteBooking", id,
                    deleteBooking(table, nextId, id, outcome), refresh)

ContextUpdateStatus(c) ==
    \E id \in ContextIds, status \in Decisions, outcome \in Outcomes,
       refresh \in Outcomes :
        ContextCall(c, "updateBookingStatus", id,
                    updateBookingStatus(table, nextId, id, status, outcome),
                    refresh)

\* The provider unmounts: the effect's cleanup calls the handle
\* subscribeToBookings returned, removeChannel(channel).  No event reaches
\* the handler afterwards; what the handler and the context already started
\* runs on.
Unsubscribe(c) ==
    /\ subscribed[c]
    /\ subscribed' = [subscribed EXCEPT ![c] = FALSE]
    /\ events' = [events EXCEPT ![c] = FALSE]
    /\ UNCHANGED <<storeVars, last, authVars, ctx, isLoading, fetches, pc,
                   editing, deleting, adminRows,
                   userBookings,
                   dialogVars>>

NextContext ==
    \E c \in Bookers :
        \/ ContextAdd(c)
        \/ ContextUpdateBooking(c)
        \/ ContextDelete(c)
        \/ ContextUpdateStatus(c)
        \/ Deliver(c)
        \/ HandleChangeWithin(c, MaxOverlap)
        \/ Unsubscribe(c)

\* The booking client's provider has mounted; no other client is open.
InitContext ==
    /\ table = EmptyTable /\ nextId = 1
    /\ ctx = [c \in Clients |-> <<>>]
    /\ isLoading = [c \in Clients |-> TRUE]
    /\ fetches \in [Clients -> {{Fetch("refresh", fetchAllBookings(EmptyTable, o))}
                                : o \in Outcomes} \cup {{}}]
    /\ \A c \in Clients : fetches[c] # {} <=> c \in Bookers
    /\ events = [c \in Clients |-> FALSE]
    /\ pc = [c \in Clients |-> Idle]
    /\ editing = [c \in Clients |-> Null]
    /\ deleting = [c \in Clients |-> Null]
    /\ adminRows = [c \in Clients |-> Null]
    /\ subscribed = [c \in Clients |-> c \in Bookers]
    /\ userBookings = [c \in Clients |-> <<>>]
    /\ DialogUnused
    /\ ServiceUnused /\ AuthUnused

SpecContext == InitContext /\ [][NextContext]_vars

\* C16: a context mutation whose service call answered an error returns
\* false (the client is free for its next call) and has started a refresh:
\* a fetchAllBookings of refreshBookings is in flight for its client.
C16_FailureStartsRefresh ==
    [][(last' # last /\ last'.failed)
        => /\ pc'[last'.client] = Idle
           /\ \E f \in fetches'[last'.client] : f.kind = "refresh"]_vars

\* The complete collection, as fetchAllBookings returns it.
Complete(tbl) == OrderByCreatedDesc(Rows(tbl))

\* In this step the handler of a change event calls callback(data).
CallbackInvoked(c) ==
    \E f \in fetches[c] \ fetches'[c] : f.kind = "notify" /\ f.hasData

C20_NoCallbackAfterCancel ==
    [][\A c \in Clients : ~subscribed[c] => ~CallbackInvoked(c)]_vars

\* C29: when the answer of a refresh or of a re-fetch after a change event
\* arrives without data, the client's bookings stay exactly as they were;
\* with data they become that data; and the answer of a refresh, with or
\* without data, leaves the loading flag false.
C29_FailedFetchKeepsList ==
    [][\A c \in Bookers :
        (fetches'[c] # fetches[c] /\ fetches'[c] \subseteq fetches[c])
            => LET f == CHOOSE g \in fetches[c] : g \notin fetches'[c]
               IN  /\ ~f.hasData => ctx'[c] = ctx[c]
                   /\ f.hasData => ctx'[c] = f.data
                   /\ f.kind # "notify" => isLoading'[c] = FALSE]_vars

\* The store no longer holds the booking the client deleted, and every
\* re-fetch since has failed: the client's list still shows it.
C29_Witness ==
    \E c \in Bookers :
        /\ last.op = "deleteBooking" /\ ~last.failed
        /\ table = EmptyTable
        /\ fetches[c] = {} /\ ~events[c] /\ pc[c] = Idle
        /\ ctx[c] # <<>>
        /\ isLoading[c] = FALSE

(***************************************************************************)
(* SpecSync: SpecContext with a store that answers every fetchAllBookings  *)
(* with data.  Service calls may still fail.                               *)
(***************************************************************************)
FetchesSucceed == \A c \in Clients : \A f \in fetches[c] : f.hasData

InitSync == InitContext /\ FetchesSucceed

NextSync == NextContext /\ FetchesSucceed'

SpecSync == InitSync /\ [][NextSync]_vars

\* C19: when nothing is outstanding for a subscribed client (no fetch in
\* flight, no change event waiting, no mutation awaited, every fetch having
\* answered with data), its list is the store's content.  From such a
\* state on, if the store does not change, nothing changes the list.
C19_SettledIsCurrent ==
    \A c \in Clients :
        (subscribed[c] /\ fetches[c] = {} /\ ~events[c] /\ pc[c] = Idle)
            => ctx[c] = Complete(table)

C13_StartBeforeEnd ==
    \A i \in DOMAIN table : table[i].start_time < table[i].end_time

\* The store holds a booking that the edit form has rewritten.
C13_Witness ==
    \E i \in DOMAIN table :
        /\ table[i].reason \in EditReasons
        /\ table[i].start_time < table[i].end_time

\* C14: in every state the program reaches, every booking the store holds
\* has status pending, approved or rejected: no creation, edit or status
\* change of the program writes "today".
C14_StatusIsAssignable ==
    \A i \in DOMAIN table :
        table[i].status \in {"pending", "approved", "rejected"}

\* The administrator has decided a booking and its owner's list shows it.
C14_Witness ==
    \E i \in DOMAIN table :
        /\ table[i].status \in Decisions
        /\ \E c \in Bookers : \E k \in DOMAIN ctx[c] : ctx[c][k] = table[i]

====
